---- MODULE Spec2Model ----
(***************************************************************************)
(* symlistow: verification of candidate binaries (Executable::verify_binary,*)
(* ExecutableBin::new), reconciliation of a symlink with a source binary   *)
(* (handle_symlink, prompt_user_for_replacement) and collection of         *)
(* verified binaries (append_verified_binaries), over a small filesystem.  *)
(***************************************************************************)
EXTENDS Integers, Sequences, FiniteSets, TLC

VARIABLES fs, fs0, pc, args, verified, decision, log, out, reads, calls,
          prev, result, versions, processed

vars == <<fs, fs0, pc, args, verified, decision, log, out, reads, calls,
          prev, result, versions, processed>>

(***************************************************************************)
(* Bounds                                                                  *)
(***************************************************************************)
\* longest stdout a --version child writes
MaxOut == 3
\* largest exit code a --version child returns
MaxStatus == 2
\* number of ExecutableBin::new calls in one run
MaxNew == 2
\* number of handle_symlink calls in one run
MaxCalls == 2
\* number of lines the operator is asked for in one handle_symlink call
MaxReads == 2
\* number of candidate paths handed to append_verified_binaries in one run
MaxCands == 3

(***************************************************************************)
(* Text: bytes, code points, lossy decoding, trimming                      *)
(***************************************************************************)
\* 'a', ' ', '\n' and 0xFF (never valid in UTF-8)
Bytes == {97, 32, 10, 255}

\* U+FFFD, what String::from_utf8_lossy puts in place of an invalid byte
ReplacementChar == 65533

\* char::is_whitespace: the Unicode White_Space code points
IsWhitespace(c) ==
    c \in ({9, 10, 11, 12, 13, 32, 133, 160, 5760, 8232, 8233, 8239, 8287, 12288}
           \cup (8192..8202))

\* String::from_utf8_lossy on a stdout made of ASCII bytes and lone 0xFF bytes
FromUtf8Lossy(bytes) ==
    [i \in 1..Len(bytes) |-> IF bytes[i] < 128 THEN bytes[i] ELSE ReplacementChar]

RECURSIVE TrimStart(_)
TrimStart(s) ==
    IF s # <<>> /\ IsWhitespace(Head(s)) THEN TrimStart(Tail(s)) ELSE s

RECURSIVE TrimEnd(_)
TrimEnd(s) ==
    IF s # <<>> /\ IsWhitespace(s[Len(s)])
    THEN TrimEnd(SubSeq(s, 1, Len(s) - 1))
    ELSE s

\* str::trim, as a bug would have it: only the end is trimmed
TrimEndOnly(s) == TrimEnd(s)

\* str::trim
Trim(s) == TrimEnd(TrimStart(s))

RECURSIVE SeqsUpTo(_, _)
SeqsUpTo(S, n) ==
    IF n = 0 THEN {<<>>}
    ELSE LET shorter == SeqsUpTo(S, n - 1)
         IN  shorter \cup {Append(s, x) : s \in {t \in shorter : Len(t) = n - 1}, x \in S}

(***************************************************************************)
(* The filesystem and the programs in it                                   *)
(***************************************************************************)
link_path == "link"
source_path == "src"

Paths == {"link", "src", "old", "gone"}

\* what can make Command::output fail for a file that exists
SpawnErrors == {"PermissionDenied", "ExecFormat"}

Outputs == SeqsUpTo(Bytes, MaxOut)

\* how a file behaves when run with --version
Programs ==
    {[err |-> e, status |-> 0, stdout |-> <<>>] : e \in SpawnErrors}
    \cup {[err |-> "none", status |-> s, stdout |-> o] : s \in 0..MaxStatus, o \in Outputs}

NoProg == [err |-> "none", status |-> 0, stdout |-> <<>>]
NoEntry == [kind |-> "none", prog |-> NoProg, target |-> "gone"]
File(p) == [kind |-> "file", prog |-> p, target |-> "gone"]
Symlink(t) == [kind |-> "symlink", prog |-> NoProg, target |-> t]

\* the entry a path leads to when symlinks are followed; none when the chain
\* breaks or does not end
RECURSIVE Follow(_, _, _)
Follow(f, p, hops) ==
    IF f[p].kind = "symlink"
    THEN IF hops = 0 THEN NoEntry ELSE Follow(f, f[p].target, hops - 1)
    ELSE f[p]

Resolve(f, p) == Follow(f, p, Cardinality(Paths))

\* Path::exists: follows symlinks, false for a broken one
Exists(f, p) == Resolve(f, p).kind # "none"

\* an entry of any kind sits at p itself (symlinks not followed)
EntryAt(f, p) == f[p].kind # "none"

\* Command::new(p).arg("--version").output()
Spawn(f, p) ==
    LET e == Resolve(f, p)
    IN  IF e.kind = "none"
        THEN [ok |-> FALSE, cause |-> "NotFound", status |-> 0, stdout |-> <<>>]
        ELSE IF e.prog.err # "none"
        THEN [ok |-> FALSE, cause |-> e.prog.err, status |-> 0, stdout |-> <<>>]
        ELSE [ok |-> TRUE, cause |-> "none", status |-> e.prog.status,
              stdout |-> e.prog.stdout]

(***************************************************************************)
(* Executable::verify_binary                                               *)
(***************************************************************************)
Outcome(k, p, v, s, c, t) ==
    [kind |-> k, path |-> p, version |-> v, status |-> s, cause |-> c, trace |-> t]

\* verify_binary with the child spawned before the existence check
VerifyBinarySpawnFirst(f, binary_path) ==
    LET r == Spawn(f, binary_path)
    IN  IF ~Exists(f, binary_path)
        THEN Outcome("MissingPath", binary_path, <<>>, 0, "none", <<"spawn", "exists">>)
        ELSE IF ~r.ok
        THEN Outcome("ExecutionError", binary_path, <<>>, 0, r.cause, <<"spawn", "exists">>)
        ELSE IF r.status = 0
        THEN Outcome("Ok", binary_path, Trim(FromUtf8Lossy(r.stdout)), 0, "none",
                     <<"spawn", "exists">>)
        ELSE Outcome("VersionCallFail", binary_path, <<>>, r.status, "none",
                     <<"spawn", "exists">>)

\* verify_binary that does not look at the exit status
VerifyBinaryIgnoreStatus(f, binary_path) ==
    IF ~Exists(f, binary_path)
    THEN Outcome("MissingPath", binary_path, <<>>, 0, "none", <<"exists">>)
    ELSE LET r == Spawn(f, binary_path)
         IN  IF r.ok
             THEN Outcome("Ok", binary_path, Trim(FromUtf8Lossy(r.stdout)), 0, "none",
                          <<"exists", "spawn">>)
             ELSE Outcome("ExecutionError", binary_path, <<>>, 0, r.cause,
                          <<"exists", "spawn">>)

\* verify_binary that reports a failed spawn without its cause
VerifyBinaryLosesCause(f, binary_path) ==
    IF ~Exists(f, binary_path)
    THEN Outcome("MissingPath", binary_path, <<>>, 0, "none", <<"exists">>)
    ELSE LET r == Spawn(f, binary_path)
         IN  IF r.ok
             THEN IF r.status = 0
                  THEN Outcome("Ok", binary_path, Trim(FromUtf8Lossy(r.stdout)), 0,
                               "none", <<"exists", "spawn">>)
                  ELSE Outcome("VersionCallFail", binary_path, <<>>, r.status, "none",
                               <<"exists", "spawn">>)
             ELSE Outcome("ExecutionError", binary_path, <<>>, 0, "none",
                          <<"exists", "spawn">>)

VerifyBinary(f, binary_path) ==
    IF ~Exists(f, binary_path)
    THEN Outcome("MissingPath", binary_path, <<>>, 0, "none", <<"exists">>)
    ELSE LET r == Spawn(f, binary_path)
         IN  IF r.ok
             THEN IF r.status = 0
                  THEN Outcome("Ok", binary_path, Trim(FromUtf8Lossy(r.stdout)), 0,
                               "none", <<"exists", "spawn">>)
                  ELSE Outcome("VersionCallFail", binary_path, <<>>, r.status, "none",
                               <<"exists", "spawn">>)
             ELSE Outcome("ExecutionError", binary_path, <<>>, 0, r.cause,
                          <<"exists", "spawn">>)

(***************************************************************************)
(* ExecutableBin::new                                                      *)
(***************************************************************************)
NoBin == [path |-> "gone", version_report |-> <<>>]
NoResult == [made |-> FALSE, bin |-> NoBin,
             err |-> Outcome("none", "gone", <<>>, 0, "none", <<>>)]

ExecutableBinNew(f, candidate) ==
    LET v == VerifyBinary(f, candidate)
    IN  IF v.kind = "Ok"
        THEN [made |-> TRUE, bin |-> [path |-> candidate, version_report |-> v.version],
              err |-> v]
        ELSE [made |-> FALSE, bin |-> NoBin, err |-> v]

NoArgs == [interactive |-> FALSE, source_version |-> <<>>]
NoVerified == Outcome("none", "gone", <<>>, 0, "none", <<>>)

\* a candidate file with any program, a valid link to it, a broken link
InitVerify ==
    /\ \E p \in Programs :
          fs = [q \in Paths |->
                  CASE q = "src" -> File(p)
                    [] q = "link" -> Symlink("src")
                    [] q = "old" -> Symlink("gone")
                    [] OTHER -> NoEntry]
    /\ fs0 = fs
    /\ pc = "idle"
    /\ args = NoArgs
    /\ verified = NoVerified
    /\ decision = FALSE
    /\ log = <<>>
    /\ out = <<>>
    /\ reads = 0
    /\ calls = 0
    /\ prev = <<>>
    /\ result = NoResult
    /\ versions = <<>>
    /\ processed = <<>>

New ==
    /\ calls < MaxNew
    /\ \E candidate \in Paths : result' = ExecutableBinNew(fs, candidate)
    /\ calls' = calls + 1
    /\ UNCHANGED <<fs, fs0, pc, args, verified, decision, log, out, reads, prev,
                   versions, processed>>

NextVerify == New

SpecVerify == InitVerify /\ [][NextVerify]_vars

(***************************************************************************)
(* Filesystem primitives used by handle_symlink                            *)
(***************************************************************************)
\* fs::remove_file(p): removes the entry at p itself; fails when there is none,
\* or when the environment refuses (fault)
RemoveFile(f, p, fault) ==
    IF ~EntryAt(f, p) THEN [ok |-> FALSE, err |-> "NotFound", fs |-> f]
    ELSE IF fault THEN [ok |-> FALSE, err |-> "PermissionDenied", fs |-> f]
    ELSE [ok |-> TRUE, err |-> "none", fs |-> [f EXCEPT ![p] = NoEntry]]

\* symlink called with the link location in place of the target
MakeSymlinkToItself(f, target, p, fault) ==
    IF EntryAt(f, p) THEN [ok |-> FALSE, err |-> "AlreadyExists", fs |-> f]
    ELSE IF fault THEN [ok |-> FALSE, err |-> "PermissionDenied", fs |-> f]
    ELSE [ok |-> TRUE, err |-> "none", fs |-> [f EXCEPT ![p] = Symlink(p)]]

\* unix_fs::symlink(target, p): creates a symlink at p; fails when any entry is
\* at p (a broken symlink included), or when the environment refuses (fault)
MakeSymlink(f, target, p, fault) ==
    IF EntryAt(f, p) THEN [ok |-> FALSE, err |-> "AlreadyExists", fs |-> f]
    ELSE IF fault THEN [ok |-> FALSE, err |-> "PermissionDenied", fs |-> f]
    ELSE [ok |-> TRUE, err |-> "none", fs |-> [f EXCEPT ![p] = Symlink(target)]]

Event(op, res, line) == [op |-> op, res |-> res, line |-> line]

(***************************************************************************)
(* prompt_user_for_replacement                                             *)
(***************************************************************************)
\* what read_line can hand back: end of input, "\n", "Y\n", "yes\n", " no \n",
\* "n\n", "x\n"
InputLines == {<<>>, <<10>>, <<89, 10>>, <<121, 101, 115, 10>>,
               <<32, 110, 111, 32, 10>>, <<110, 10>>, <<120, 10>>}

\* str::to_lowercase on ASCII
ToLowercase(s) == [i \in 1..Len(s) |-> IF s[i] \in 65..90 THEN s[i] + 32 ELSE s[i]]

\* ParseAnswer without the trim
ParseAnswerNoTrim(line) ==
    LET input == ToLowercase(line)
    IN  IF input \in {<<>>, <<121>>, <<121, 101, 115>>} THEN "yes"
        ELSE IF input \in {<<110>>, <<110, 111>>} THEN "no"
        ELSE "invalid"

\* ParseAnswer that takes every line other than a no for the default yes
ParseAnswerDefaultYes(line) ==
    LET input == ToLowercase(Trim(line))
    IN  IF input \in {<<110>>, <<110, 111>>} THEN "no" ELSE "yes"

\* the match on the trimmed, lower-cased line: "yes", "no" or "invalid"
ParseAnswer(line) ==
    LET input == ToLowercase(Trim(line))
    IN  IF input \in {<<>>, <<121>>, <<121, 101, 115>>} THEN "yes"
        ELSE IF input \in {<<110>>, <<110, 111>>} THEN "no"
        ELSE "invalid"

(***************************************************************************)
(* handle_symlink, one action per primitive step                           *)
(***************************************************************************)
\* the versions a caller passes as source_version: "a", "aa", ""
SourceVersions == {<<97>>, <<97, 97>>, <<>>}

\* programs of the binaries a link may lead to: prints "a\n", prints "aa",
\* prints nothing, exits 1 after printing "a\n", cannot be executed
LinkPrograms ==
    {[err |-> "none", status |-> 0, stdout |-> <<97, 10>>],
     [err |-> "none", status |-> 0, stdout |-> <<97, 97>>],
     [err |-> "none", status |-> 0, stdout |-> <<>>],
     [err |-> "none", status |-> 1, stdout |-> <<97, 10>>],
     [err |-> "PermissionDenied", status |-> 0, stdout |-> <<>>]}

\* the link is absent, leads to the old binary, leads to the source, is broken,
\* or is a regular file
Init ==
    /\ \E ps \in LinkPrograms, po \in LinkPrograms :
       \E l \in {NoEntry, Symlink("old"), Symlink("src"), Symlink("gone"), File(po)} :
          fs = [q \in Paths |->
                  CASE q = "src" -> File(ps)
                    [] q = "old" -> File(po)
                    [] q = "link" -> l
                    [] OTHER -> NoEntry]
    /\ fs0 = fs
    /\ pc = "idle"
    /\ args = NoArgs
    /\ verified = NoVerified
    /\ decision = FALSE
    /\ log = <<>>
    /\ out = <<>>
    /\ reads = 0
    /\ calls = 0
    /\ prev = <<>>
    /\ result = NoResult
    /\ versions = <<>>
    /\ processed = <<>>

HsCall ==
    /\ pc = "idle"
    /\ calls < MaxCalls
    /\ \E i \in BOOLEAN, v \in SourceVersions :
          args' = [interactive |-> i, source_version |-> v]
    /\ pc' = "hs_exists"
    /\ fs0' = fs
    /\ verified' = NoVerified
    /\ decision' = FALSE
    /\ log' = <<>>
    /\ out' = <<>>
    /\ reads' = 0
    /\ UNCHANGED <<fs, calls, prev, result, versions, processed>>

\* if link_path.exists()
HsExists ==
    /\ pc = "hs_exists"
    /\ IF Exists(fs, link_path)
       THEN /\ pc' = "hs_verify"
            /\ log' = Append(log, Event("exists", "true", <<>>))
            /\ out' = out
       ELSE /\ pc' = "hs_create"
            /\ log' = Append(log, Event("exists", "false", <<>>))
            /\ out' = Append(out, "creating")
    /\ UNCHANGED <<fs, fs0, args, verified, decision, reads, calls, prev, result,
                   versions, processed>>

\* AfterVerify without the version comparison
AfterVerifyNoCompare(v, a) ==
    IF v.kind = "Ok"
    THEN IF ~a.interactive
         THEN [pc |-> "hs_replace", out |-> <<"forcing", "replacing">>, decision |-> TRUE]
         ELSE [pc |-> "hs_prompt", out |-> <<"mismatch">>, decision |-> FALSE]
    ELSE [pc |-> "hs_repair_remove", out |-> <<"warn_invalid", "recreating">>,
          decision |-> FALSE]

\* AfterVerify with the test of the mode inverted
AfterVerifyModeInverted(v, a) ==
    IF v.kind = "Ok"
    THEN IF v.version = a.source_version
         THEN [pc |-> "returned", out |-> <<"already">>, decision |-> FALSE]
         ELSE IF a.interactive
         THEN [pc |-> "hs_replace", out |-> <<"forcing", "replacing">>, decision |-> TRUE]
         ELSE [pc |-> "hs_prompt", out |-> <<"mismatch">>, decision |-> FALSE]
    ELSE [pc |-> "hs_repair_remove", out |-> <<"warn_invalid", "recreating">>,
          decision |-> FALSE]

\* where handle_symlink goes after verify_binary(link_path) returned v
AfterVerify(v, a) ==
    IF v.kind = "Ok"
    THEN IF v.version = a.source_version
         THEN [pc |-> "returned", out |-> <<"already">>, decision |-> FALSE]
         ELSE IF ~a.interactive
         THEN [pc |-> "hs_replace", out |-> <<"forcing", "replacing">>, decision |-> TRUE]
         ELSE [pc |-> "hs_prompt", out |-> <<"mismatch">>, decision |-> FALSE]
    ELSE [pc |-> "hs_repair_remove", out |-> <<"warn_invalid", "recreating">>,
          decision |-> FALSE]

\* match verify_binary(link_path), the version comparison and the mode
HsVerify ==
    /\ pc = "hs_verify"
    /\ LET v == VerifyBinary(fs, link_path)
           n == AfterVerify(v, args)
       IN  /\ verified' = v
           /\ log' = Append(log, Event("verify", v.kind, <<>>))
           /\ pc' = n.pc
           /\ out' = out \o n.out
           /\ decision' = n.decision
    /\ UNCHANGED <<fs, fs0, args, reads, calls, prev, result, versions, processed>>

\* one turn of the prompt loop: read a line (or fail to), parse it
HsPrompt ==
    /\ pc = "hs_prompt"
    /\ reads < MaxReads
    /\ reads' = reads + 1
    /\ \/ /\ log' = Append(log, Event("read", "error", <<>>))
          /\ pc' = "panicked"
          /\ UNCHANGED <<out, decision>>
       \/ \E line \in InputLines :
             /\ log' = Append(log, Event("read", ParseAnswer(line), line))
             /\ CASE ParseAnswer(line) = "yes" ->
                       /\ pc' = "hs_replace"
                       /\ decision' = TRUE
                       /\ out' = Append(out, "replacing")
                  [] ParseAnswer(line) = "no" ->
                       /\ pc' = "returned"
                       /\ decision' = FALSE
                       /\ out' = Append(out, "keeping")
                  [] OTHER ->
                       /\ pc' = "hs_prompt"
                       /\ decision' = FALSE
                       /\ out' = Append(out, "invalid_input")
    /\ UNCHANGED <<fs, fs0, args, verified, calls, prev, result, versions, processed>>

\* the remove of the replace branch with its error ignored, as in the repair
\* branch
HsReplaceIgnoreError ==
    /\ pc = "hs_replace"
    /\ \E fault \in BOOLEAN :
          LET r == RemoveFile(fs, link_path, fault)
          IN  /\ fs' = r.fs
              /\ log' = Append(log, Event("remove", r.err, <<>>))
    /\ pc' = "hs_replace_symlink"
    /\ UNCHANGED <<fs0, args, verified, decision, out, reads, calls, prev, result,
                   versions, processed>>

\* if let Err(e) = fs::remove_file(link_path) { eprintln; return }
HsReplace ==
    /\ pc = "hs_replace"
    /\ \E fault \in BOOLEAN :
          LET r == RemoveFile(fs, link_path, fault)
          IN  /\ fs' = r.fs
              /\ log' = Append(log, Event("remove", r.err, <<>>))
              /\ IF r.ok
                 THEN /\ pc' = "hs_replace_symlink"
                      /\ out' = out
                 ELSE /\ pc' = "returned"
                      /\ out' = Append(out, "err_remove")
    /\ UNCHANGED <<fs0, args, verified, decision, reads, calls, prev, result,
                   versions, processed>>

\* a symlink attempt that puts the old entry back when it fails
SymlinkStepRestore(okMsg) ==
    /\ \E fault \in BOOLEAN :
          LET r == MakeSymlink(fs, source_path, link_path, fault)
          IN  /\ fs' = IF r.ok THEN r.fs ELSE fs0
              /\ log' = Append(log, Event("symlink", r.err, <<>>))
              /\ out' = Append(out, IF r.ok THEN okMsg ELSE "err_symlink")
    /\ pc' = "returned"
    /\ UNCHANGED <<fs0, args, verified, decision, reads, calls, prev, result,
                   versions, processed>>

\* a symlink attempt that is made again when it fails
SymlinkStepRetry(okMsg) ==
    /\ \E fault \in BOOLEAN :
          LET r == MakeSymlink(fs, source_path, link_path, fault)
          IN  /\ fs' = r.fs
              /\ log' = Append(log, Event("symlink", r.err, <<>>))
              /\ out' = Append(out, IF r.ok THEN okMsg ELSE "err_symlink")
              /\ pc' = IF r.ok \/ Len(log) > 4 THEN "returned" ELSE pc
    /\ UNCHANGED <<fs0, args, verified, decision, reads, calls, prev, result,
                   versions, processed>>

\* a symlink attempt and its report; okMsg is the success line of the branch
SymlinkStep(okMsg) ==
    /\ \E fault \in BOOLEAN :
          LET r == MakeSymlink(fs, source_path, link_path, fault)
          IN  /\ fs' = r.fs
              /\ log' = Append(log, Event("symlink", r.err, <<>>))
              /\ out' = Append(out, IF r.ok THEN okMsg ELSE "err_symlink")
    /\ pc' = "returned"
    /\ UNCHANGED <<fs0, args, verified, decision, reads, calls, prev, result,
                   versions, processed>>

\* the symlink call of the replace branch
HsReplaceSymlink ==
    /\ pc = "hs_replace_symlink"
    /\ SymlinkStep("replaced")

\* let _ = fs::remove_file(link_path)
HsRepairRemove ==
    /\ pc = "hs_repair_remove"
    /\ \E fault \in BOOLEAN :
          LET r == RemoveFile(fs, link_path, fault)
          IN  /\ fs' = r.fs
              /\ log' = Append(log, Event("remove", r.err, <<>>))
    /\ pc' = "hs_repair_symlink"
    /\ UNCHANGED <<fs0, args, verified, decision, out, reads, calls, prev, result,
                   versions, processed>>

\* the symlink call of the repair branch
HsRepairSymlink ==
    /\ pc = "hs_repair_symlink"
    /\ SymlinkStep("created")

\* the create branch looking at link_path again before it calls symlink
HsCreateRecheck ==
    /\ pc = "hs_create"
    /\ IF EntryAt(fs, link_path)
       THEN /\ pc' = "hs_exists"
            /\ UNCHANGED <<fs, fs0, args, verified, decision, log, out, reads, calls,
                           prev, result, versions, processed>>
       ELSE SymlinkStep("created")

\* the symlink call of the branch taken when link_path.exists() is false
HsCreate ==
    /\ pc = "hs_create"
    /\ SymlinkStep("created")

\* handle_symlink returns to its caller
HsReturn ==
    /\ pc = "returned"
    /\ pc' = "idle"
    /\ calls' = calls + 1
    /\ prev' = <<[args |-> args, out |-> out]>>
    /\ UNCHANGED <<fs, fs0, args, verified, decision, log, out, reads, result,
                   versions, processed>>

Next ==
    \/ HsCall
    \/ HsExists
    \/ HsVerify
    \/ HsPrompt
    \/ HsReplace
    \/ HsReplaceSymlink
    \/ HsRepairRemove
    \/ HsRepairSymlink
    \/ HsCreate
    \/ HsReturn

Spec == Init /\ [][Next]_vars

(***************************************************************************)
(* append_verified_binaries and the batch that calls it                    *)
(***************************************************************************)
\* the components of each path of the model
PathText ==
    [q \in Paths |->
       CASE q = "link" -> <<"bin", "tool">>
         [] q = "src" -> <<"opt", "tool">>
         [] q = "old" -> <<"usr", "oldtool">>
         [] OTHER -> <<"opt", "gone">>]

\* path.file_name().and_then(|n| n.to_str()).unwrap_or("no_basename")
FileName(p) ==
    LET t == PathText[p]
    IN  IF t = <<>> THEN "no_basename" ELSE t[Len(t)]

\* append_verified_binaries that puts the new entry in front
AppendVerifiedBinariesInFront(f, path, vs) ==
    LET v == VerifyBinary(f, path)
    IN  IF v.kind = "Ok"
        THEN [versions |-> <<[name |-> FileName(path), version |-> v.version]>> \o vs,
              ret |-> TRUE, out |-> "ok"]
        ELSE [versions |-> vs, ret |-> FALSE, out |-> "err"]

\* append_verified_binaries(path, versions): the new vector, the value returned
\* and the line printed
AppendVerifiedBinaries(f, path, vs) ==
    LET v == VerifyBinary(f, path)
    IN  IF v.kind = "Ok"
        THEN [versions |-> Append(vs, [name |-> FileName(path), version |-> v.version]),
              ret |-> TRUE, out |-> "ok"]
        ELSE [versions |-> vs, ret |-> FALSE, out |-> "err"]

InitCollect == Init

\* the batch hands its next candidate path to append_verified_binaries
CollectStep ==
    /\ Len(processed) < MaxCands
    /\ \E path \in Paths :
          LET r == AppendVerifiedBinaries(fs, path, versions)
          IN  /\ versions' = r.versions
              /\ processed' = Append(processed, [path |-> path, ret |-> r.ret])
              /\ out' = Append(out, r.out)
    /\ UNCHANGED <<fs, fs0, pc, args, verified, decision, log, reads, calls, prev,
                   result>>

NextCollect == CollectStep

SpecCollect == InitCollect /\ [][NextCollect]_vars

(***************************************************************************)
(* handle_symlink next to a second process working on the same link_path   *)
(***************************************************************************)
\* between two steps of the call in progress a second process (another
\* handle_symlink, say) removes the entry at link_path or creates a symlink
\* there
Interfere ==
    /\ pc \in {"hs_verify", "hs_prompt", "hs_replace", "hs_replace_symlink",
               "hs_repair_remove", "hs_repair_symlink", "hs_create"}
    /\ \/ /\ EntryAt(fs, link_path)
          /\ fs' = RemoveFile(fs, link_path, FALSE).fs
       \/ /\ ~EntryAt(fs, link_path)
          /\ \E t \in {"src", "old"} : fs' = MakeSymlink(fs, t, link_path, FALSE).fs
    /\ UNCHANGED <<fs0, pc, args, verified, decision, log, out, reads, calls, prev,
                   result, versions, processed>>

InitRace == Init

\* one handle_symlink call, the second process free to act between its steps
NextRace ==
    \/ HsCall
    \/ HsExists
    \/ HsVerify
    \/ HsPrompt
    \/ HsReplace
    \/ HsReplaceSymlink
    \/ HsRepairRemove
    \/ HsRepairSymlink
    \/ HsCreate
    \/ Interfere

SpecRace == InitRace /\ [][NextRace]_vars

(***************************************************************************)
(* Properties of handle_symlink (checked under Spec)                       *)
(***************************************************************************)
\* the operations of one kind in the log of the current call, in order
OpsOf(op) == SelectSeq(log, LAMBDA e : e.op = op)
Did(op) == OpsOf(op) # <<>>

\* the log of the current call once the existence check and the verification
\* of link_path are left out
Mutations == SelectSeq(log, LAMBDA e : e.op \in {"remove", "symlink"})

\* the call in progress started with a link that verifies as source_version
LinkUpToDate ==
    LET v == VerifyBinary(fs0, link_path)
    IN  v.kind = "Ok" /\ v.version = args.source_version

\* the call in progress started with a link that verifies as another version
LinkOutdated ==
    LET v == VerifyBinary(fs0, link_path)
    IN  v.kind = "Ok" /\ v.version # args.source_version

\* C1: a handle_symlink call that finds link_path verifying as exactly
\* source_version changes nothing in the filesystem, attempts no remove and no
\* symlink, reads no operator input and reports "already up to date", whatever
\* interactive is; repeated right away with the same arguments it does the same.
C1_UpToDateIsNoOp ==
    /\ (pc # "idle" /\ LinkUpToDate) =>
          /\ fs = fs0
          /\ Mutations = <<>>
          /\ ~Did("read")
          /\ pc \in {"hs_exists", "hs_verify", "returned"}
          /\ pc = "returned" => out = <<"already">>
    /\ (pc = "returned" /\ prev # <<>> /\ prev[1].args = args
           /\ prev[1].out = <<"already">>) =>
          /\ out = <<"already">>
          /\ fs = fs0
          /\ Mutations = <<>>

\* the second of two calls in a row with the same arguments, interactive mode,
\* both reporting "already up to date"
C1_Witness ==
    /\ pc = "returned"
    /\ calls = 1
    /\ args.interactive
    /\ LinkUpToDate
    /\ prev # <<>> /\ prev[1].args = args /\ prev[1].out = <<"already">>
    /\ out = <<"already">>

\* C2: whenever an entry sits at link_path and verifying it fails (a broken
\* symlink included), handle_symlink attempts to remove the entry and then
\* attempts to create the symlink to source_path, in both modes, without
\* reading operator input.
C2_BrokenLinkIsRepaired ==
    (pc = "returned" /\ EntryAt(fs0, link_path)
        /\ VerifyBinary(fs0, link_path).kind # "Ok") =>
       /\ ~Did("read")
       /\ Len(Mutations) = 2
       /\ Mutations[1].op = "remove"
       /\ Mutations[2].op = "symlink"

\* C3 as stated: with a link verifying as another version and interactive =
\* FALSE, handle_symlink reads no input, removes the entry, then creates the
\* symlink, and at return link_path is a symlink to source_path.
C3_ForcedReplaceAlwaysLinks ==
    (pc = "returned" /\ LinkOutdated /\ ~args.interactive) =>
       /\ ~Did("read")
       /\ Len(Mutations) = 2
       /\ Mutations[1] = Event("remove", "none", <<>>)
       /\ Mutations[2] = Event("symlink", "none", <<>>)
       /\ fs[link_path] = Symlink(source_path)

\* C3 amended: with a link verifying as another version and interactive =
\* FALSE, handle_symlink never reads operator input and never waits at the
\* prompt; it attempts the remove first and the symlink only after a remove
\* that succeeded; when neither primitive fails, link_path is a symlink to
\* source_path at return and the replacement is reported; when the remove fails
\* the filesystem is as it was.
C3_ForcedReplace ==
    (pc # "idle" /\ LinkOutdated /\ ~args.interactive) =>
       /\ ~Did("read")
       /\ pc # "hs_prompt"
       /\ Len(Mutations) <= 2
       /\ Len(Mutations) >= 1 => Mutations[1].op = "remove"
       /\ Len(Mutations) = 2 =>
             Mutations[1].res = "none" /\ Mutations[2].op = "symlink"
       /\ pc = "returned" =>
             /\ Len(Mutations) >= 1
             /\ Mutations[1].res = "none" => Len(Mutations) = 2
             /\ Mutations[1].res # "none" => fs = fs0
             /\ (Len(Mutations) = 2 /\ Mutations[2].res = "none") =>
                   /\ fs[link_path] = Symlink(source_path)
                   /\ out = <<"forcing", "replacing", "replaced">>

\* a forced replacement that went through: the link led elsewhere and now
\* leads to source_path
C3_Witness ==
    /\ pc = "returned"
    /\ LinkOutdated
    /\ ~args.interactive
    /\ fs0[link_path] = Symlink("old")
    /\ fs[link_path] = Symlink(source_path)
    /\ Mutations = <<Event("remove", "none", <<>>), Event("symlink", "none", <<>>)>>

\* the lines that say no: "n\n" and " no \n"
NoLines == {<<110, 10>>, <<32, 110, 111, 32, 10>>}

\* C4: with a link verifying as another version and interactive = TRUE, once
\* the operator's line says "n" or "no" handle_symlink returns having changed
\* nothing in the filesystem and attempted no remove and no symlink, and it
\* reports that the existing link is kept.
C4_AnswerNoKeeps ==
    (pc # "idle" /\ LinkOutdated /\ args.interactive /\ log # <<>>
        /\ log[Len(log)].op = "read" /\ log[Len(log)].line \in NoLines) =>
       /\ pc = "returned"
       /\ fs = fs0
       /\ fs[link_path] = fs0[link_path]
       /\ Mutations = <<>>
       /\ out[Len(out)] = "keeping"

\* the operator first typed an invalid line and then " no "
C4_Witness ==
    /\ pc = "returned"
    /\ LinkOutdated
    /\ args.interactive
    /\ Len(OpsOf("read")) = 2
    /\ log[Len(log)].line = <<32, 110, 111, 32, 10>>
    /\ out[Len(out)] = "keeping"
    /\ fs[link_path] = Symlink("old")

\* the call in progress started with nothing at link_path and a source that
\* verifies
LinkAbsentSourceOk ==
    ~EntryAt(fs0, link_path) /\ VerifyBinary(fs0, source_path).kind = "Ok"

\* C5 as stated: with nothing at link_path and a source that verifies as V,
\* handle_symlink creates the symlink to source_path without a verify, prompt
\* or remove step, and a verify of link_path after it returned yields V.
C5_AbsentLinkAlwaysCreated ==
    (pc = "returned" /\ LinkAbsentSourceOk) =>
       /\ ~Did("verify") /\ ~Did("read") /\ ~Did("remove")
       /\ fs[link_path] = Symlink(source_path)
       /\ VerifyBinary(fs, link_path).kind = "Ok"
       /\ VerifyBinary(fs, link_path).version = VerifyBinary(fs0, source_path).version

\* C5 amended: with nothing at link_path and a source that verifies as V,
\* handle_symlink makes exactly one symlink attempt and no verify, prompt or
\* remove step; when that attempt succeeds link_path is a symlink to
\* source_path and a verify of link_path after the return yields V; when it
\* fails nothing is at link_path and the failure is reported.
C5_AbsentLinkCreated ==
    (pc = "returned" /\ LinkAbsentSourceOk) =>
       /\ ~Did("verify") /\ ~Did("read") /\ ~Did("remove")
       /\ Len(OpsOf("symlink")) = 1
       /\ OpsOf("symlink")[1].res = "none" =>
             /\ fs[link_path] = Symlink(source_path)
             /\ VerifyBinary(fs, link_path).kind = "Ok"
             /\ VerifyBinary(fs, link_path).version
                   = VerifyBinary(fs0, source_path).version
             /\ out = <<"creating", "created">>
       /\ OpsOf("symlink")[1].res # "none" =>
             /\ fs = fs0
             /\ out = <<"creating", "err_symlink">>

\* the link was absent, the source prints "a\n", the link now verifies as "a"
C5_Witness ==
    /\ pc = "returned"
    /\ LinkAbsentSourceOk
    /\ fs0[source_path].prog.stdout = <<97, 10>>
    /\ fs[link_path] = Symlink(source_path)
    /\ VerifyBinary(fs, link_path).version = <<97>>

(***************************************************************************)
(* Properties of verify_binary and ExecutableBin::new (under SpecVerify)   *)
(***************************************************************************)
\* nothing is found at p: no entry, or a symlink whose target has no entry
NothingAt(p) ==
    \/ fs[p].kind = "none"
    \/ fs[p].kind = "symlink" /\ fs[fs[p].target].kind = "none"

\* the program of the file p leads to (p itself or the file it links to)
ProgramAt(p) ==
    IF fs[p].kind = "symlink" THEN fs[fs[p].target].prog ELSE fs[p].prog

\* the path of the last ExecutableBin::new call
Candidate == result.err.path

\* C6: for a path at which nothing exists verify_binary returns MissingPath and
\* spawns no child: only the existence check is made; whenever a child is
\* spawned the existence check came first.
C6_MissingPathBeforeSpawn ==
    calls > 0 =>
       /\ NothingAt(Candidate) =>
             /\ result.err.kind = "MissingPath"
             /\ result.err.trace = <<"exists">>
             /\ ~result.made
       /\ result.err.kind = "MissingPath" => NothingAt(Candidate)
       /\ result.err.trace[1] = "exists"

\* verify_binary of the broken symlink
C6_Witness ==
    /\ calls > 0
    /\ Candidate = "old"
    /\ NothingAt(Candidate)
    /\ result.err.kind = "MissingPath"

\* C7: for an existing path whose child exits with status S # 0 verify_binary
\* returns VersionCallFail carrying S, and no version, whatever the child wrote.
C7_FailedStatusIsCarried ==
    (calls > 0 /\ ~NothingAt(Candidate) /\ ProgramAt(Candidate).err = "none"
        /\ ProgramAt(Candidate).status # 0) =>
       /\ result.err.kind = "VersionCallFail"
       /\ result.err.status = ProgramAt(Candidate).status
       /\ ~result.made

\* a child that wrote "a\n" and exited with status 2
C7_Witness ==
    /\ calls > 0
    /\ ~NothingAt(Candidate)
    /\ ProgramAt(Candidate).err = "none"
    /\ ProgramAt(Candidate).status = 2
    /\ ProgramAt(Candidate).stdout = <<97, 10>>
    /\ result.err.kind = "VersionCallFail"
    /\ result.err.status = 2

\* v is s without a whitespace prefix and a whitespace suffix, and v neither
\* starts nor ends with whitespace
IsTrimOf(v, s) ==
    \E i \in 0..Len(s), j \in 0..Len(s) :
       /\ i + j <= Len(s)
       /\ v = SubSeq(s, i + 1, Len(s) - j)
       /\ \A k \in 1..i : IsWhitespace(s[k])
       /\ \A k \in (Len(s) - j + 1)..Len(s) : IsWhitespace(s[k])
       /\ v # <<>> => ~IsWhitespace(v[1]) /\ ~IsWhitespace(v[Len(v)])

\* C8: for a child that exits successfully the version verify_binary returns
\* is the decoded stdout without its leading and trailing whitespace, interior
\* characters unchanged; so a stdout with more whitespace around it gives the
\* same version.
C8_VersionIsTrimmedStdout ==
    (calls > 0 /\ ~NothingAt(Candidate) /\ ProgramAt(Candidate).err = "none"
        /\ ProgramAt(Candidate).status = 0) =>
       /\ result.made
       /\ result.bin.path = Candidate
       /\ IsTrimOf(result.bin.version_report, FromUtf8Lossy(ProgramAt(Candidate).stdout))
       /\ \A o \in Outputs :
             IsTrimOf(FromUtf8Lossy(ProgramAt(Candidate).stdout), FromUtf8Lossy(o)) =>
                VerifyBinary([fs EXCEPT !["src"] = File([err |-> "none", status |-> 0,
                                                         stdout |-> o])], "src").version
                   = result.bin.version_report

\* stdout " a\n" gives the version "a"
C8_Witness ==
    /\ calls > 0
    /\ result.made
    /\ ProgramAt(Candidate).stdout = <<32, 97, 10>>
    /\ result.bin.version_report = <<97>>

\* C9: every ExecutableBin comes from a successful verification of its own
\* path, and its version is not empty and neither starts nor ends with
\* whitespace.
C9_VerifiedBinaryInvariant ==
    result.made =>
       /\ VerifyBinary(fs, result.bin.path).kind = "Ok"
       /\ VerifyBinary(fs, result.bin.path).version = result.bin.version_report
       /\ result.bin.version_report # <<>>
       /\ ~IsWhitespace(result.bin.version_report[1])
       /\ ~IsWhitespace(result.bin.version_report[Len(result.bin.version_report)])

(***************************************************************************)
(* Properties of the collection (checked under SpecCollect)                *)
(***************************************************************************)
\* the file p leads to runs and exits with status 0
Succeeds(p) ==
    ~NothingAt(p) /\ ProgramAt(p).err = "none" /\ ProgramAt(p).status = 0

\* the candidates of ps that succeed, in the order of ps
RECURSIVE Kept(_)
Kept(ps) ==
    IF ps = <<>> THEN <<>>
    ELSE (IF Succeeds(Head(ps).path) THEN <<Head(ps).path>> ELSE <<>>) \o Kept(Tail(ps))

\* C10: after any number of candidates handed over in order, the accumulated
\* vector holds one entry for each candidate whose verification succeeded, in
\* input order, duplicates kept; a failed candidate is reported, adds nothing,
\* leaves the earlier entries as they were and does not stop the next one.
C10_CollectorKeepsVerifiedInOrder ==
    LET kept == Kept(processed)
    IN  /\ Len(versions) = Len(kept)
        /\ \A i \in 1..Len(kept) :
              /\ versions[i].name = FileName(kept[i])
              /\ IsTrimOf(versions[i].version, FromUtf8Lossy(ProgramAt(kept[i]).stdout))
        /\ Len(out) = Len(processed)
        /\ \A i \in 1..Len(processed) :
              /\ processed[i].ret = Succeeds(processed[i].path)
              /\ out[i] = IF Succeeds(processed[i].path) THEN "ok" ELSE "err"
        /\ Len(processed) < MaxCands => ENABLED CollectStep

\* three candidates, the second one failing, the first and third kept in order
C10_Witness ==
    /\ Len(processed) = 3
    /\ processed[1].ret /\ ~processed[2].ret /\ processed[3].ret
    /\ processed[1].path = "old" /\ processed[3].path = "src"
    /\ Len(versions) = 2
    /\ versions[1].name = "oldtool" /\ versions[2].name = "tool"

(***************************************************************************)
(* Failure handling of handle_symlink (checked under Spec)                 *)
(***************************************************************************)
\* the entry found at link_path verified, with another version, and the
\* decision was to replace it
ReplaceChosen == verified.kind = "Ok" /\ decision

\* every failure seen so far in the current call has been reported
FailuresReported ==
    /\ (Did("verify") /\ verified.kind # "Ok") => out[1] = "warn_invalid"
    /\ \A i \in 1..Len(log) :
          (log[i].op = "symlink" /\ log[i].res # "none") =>
             out[Len(out)] = "err_symlink"
    /\ \A i \in 1..Len(log) :
          (log[i].op = "remove" /\ log[i].res # "none" /\ ReplaceChosen) =>
             out[Len(out)] = "err_remove"

\* C11: handle_symlink never ends the process: it never panics, and every
\* failure of the verification, of the remove and of the symlink is reported
\* and followed by a normal return.
C11_NeverTerminatesProcess ==
    /\ pc # "panicked"
    /\ pc = "returned" => FailuresReported

\* C12: in the replace path (the link verified, the versions differ, the
\* decision is to replace), a remove that fails makes handle_symlink return at
\* once: no symlink attempt, the failure reported, the filesystem as it was.
C12_FailedRemoveAborts ==
    (pc # "idle" /\ LinkOutdated /\ ReplaceChosen /\ Did("remove")
        /\ OpsOf("remove")[1].res # "none") =>
       /\ pc = "returned"
       /\ ~Did("symlink")
       /\ Len(OpsOf("remove")) = 1
       /\ fs = fs0
       /\ fs[link_path] = fs0[link_path]
       /\ out[Len(out)] = "err_remove"

\* the operator said yes, the remove was refused, the old link is still there
C12_Witness ==
    /\ pc = "returned"
    /\ LinkOutdated
    /\ args.interactive
    /\ ReplaceChosen
    /\ OpsOf("remove") = <<Event("remove", "PermissionDenied", <<>>)>>
    /\ fs[link_path] = Symlink("old")

\* C13: when the symlink attempt fails after the entry at link_path was
\* removed (in the replace path or in the repair path), handle_symlink returns
\* with nothing at link_path, the failure reported, one remove and one symlink
\* attempt made and the old entry not put back.
C13_FailedCreateLeavesNoLink ==
    (pc # "idle" /\ Did("symlink") /\ OpsOf("symlink")[1].res # "none"
        /\ Did("remove") /\ OpsOf("remove")[1].res = "none") =>
       /\ pc = "returned"
       /\ ~EntryAt(fs, link_path)
       /\ EntryAt(fs0, link_path)
       /\ Len(OpsOf("symlink")) = 1
       /\ Len(OpsOf("remove")) = 1
       /\ out[Len(out)] = "err_symlink"

\* a repair whose remove went through and whose symlink was refused
C13_Witness ==
    /\ pc = "returned"
    /\ verified.kind = "VersionCallFail"
    /\ Mutations = <<Event("remove", "none", <<>>),
                     Event("symlink", "PermissionDenied", <<>>)>>
    /\ fs0[link_path] = Symlink("old")
    /\ ~EntryAt(fs, link_path)

(***************************************************************************)
(* The prompt loop (checked under Spec)                                    *)
(***************************************************************************)
\* the lines that say yes: end of input, "\n", "Y\n", "yes\n"
YesLines == {<<>>, <<10>>, <<89, 10>>, <<121, 101, 115, 10>>}

\* the lines read so far in the current call, in order
LinesRead == [i \in 1..Len(OpsOf("read")) |-> OpsOf("read")[i].line]

ReadFailed == \E i \in 1..Len(log) : log[i].op = "read" /\ log[i].res = "error"

\* C14: in interactive mode the prompt returns the decision of the first line
\* read that is a valid answer (empty, y, yes: replace; n, no: keep); every
\* line read before it is invalid, gets the error message and a new prompt and
\* does not change the decision; the loop is not left before a valid answer.
C14_FirstValidAnswerDecides ==
    (pc # "idle" /\ ~ReadFailed) =>
       LET r == LinesRead
           invalid == {i \in 1..Len(r) : r[i] \notin YesLines \cup NoLines}
       IN  /\ \A i \in 1..(Len(r) - 1) : i \in invalid
           /\ Len(SelectSeq(out, LAMBDA m : m = "invalid_input")) = Cardinality(invalid)
           /\ pc = "hs_prompt" => Cardinality(invalid) = Len(r) /\ ~decision
           /\ (r # <<>> /\ r[Len(r)] \in YesLines) =>
                 /\ decision
                 /\ pc \in {"hs_replace", "hs_replace_symlink", "returned"}
                 /\ Did("remove") \/ pc = "hs_replace"
           /\ (r # <<>> /\ r[Len(r)] \in NoLines) =>
                 /\ ~decision
                 /\ pc = "returned"
                 /\ out[Len(out)] = "keeping"
                 /\ ~Did("remove")
           /\ (args.interactive /\ verified.kind = "Ok"
                  /\ verified.version # args.source_version /\ pc # "hs_prompt") =>
                 r # <<>> /\ r[Len(r)] \in YesLines \cup NoLines

\* an invalid line, then "yes": the link is replaced
C14_Witness ==
    /\ pc = "returned"
    /\ LinesRead = <<<<120, 10>>, <<121, 101, 115, 10>>>>
    /\ decision
    /\ out = <<"mismatch", "invalid_input", "replacing", "replaced">>
    /\ fs[link_path] = Symlink(source_path)

(***************************************************************************)
(* Further properties of verify_binary (checked under SpecVerify)          *)
(***************************************************************************)
\* C15: for a path that exists but whose spawn fails verify_binary returns
\* ExecutionError with the cause of the failure; every call returns one of Ok,
\* MissingPath, VersionCallFail and ExecutionError, an ExecutableBin is made
\* only for Ok, and at most one child is spawned per call.
C15_SpawnFailureKeepsCause ==
    calls > 0 =>
       /\ result.err.kind \in {"Ok", "MissingPath", "VersionCallFail", "ExecutionError"}
       /\ result.made <=> result.err.kind = "Ok"
       /\ (~NothingAt(Candidate) /\ ProgramAt(Candidate).err # "none") =>
             /\ result.err.kind = "ExecutionError"
             /\ result.err.cause = ProgramAt(Candidate).err
       /\ result.err.kind = "ExecutionError" =>
             ~NothingAt(Candidate) /\ ProgramAt(Candidate).err # "none"
       /\ Len(SelectSeq(result.err.trace, LAMBDA t : t = "spawn")) <= 1

\* a file that exists and cannot be executed as a program
C15_Witness ==
    /\ calls > 0
    /\ Candidate = "link"
    /\ ProgramAt(Candidate).err = "ExecFormat"
    /\ result.err.kind = "ExecutionError"
    /\ result.err.cause = "ExecFormat"

(***************************************************************************)
(* Order and number of the primitive calls (checked under Spec)            *)
(***************************************************************************)
\* C16: in one handle_symlink call the existence check, the verification of
\* link_path, the remove and the symlink are each attempted at most once; no
\* remove comes after a symlink; in the replace and repair paths (those that
\* verified link_path) a symlink comes only after the remove was attempted.
C16_EachPrimitiveAtMostOnce ==
    pc # "idle" =>
       /\ Len(OpsOf("exists")) <= 1
       /\ Len(OpsOf("verify")) <= 1
       /\ Len(OpsOf("remove")) <= 1
       /\ Len(OpsOf("symlink")) <= 1
       /\ \A i \in 1..Len(log), j \in 1..Len(log) :
             (log[i].op = "symlink" /\ log[j].op = "remove") => j < i
       /\ (Did("verify") /\ Did("symlink")) => Did("remove")

\* a repair whose remove and symlink were both refused
C16_Witness ==
    /\ pc = "returned"
    /\ [i \in 1..Len(log) |-> log[i].op] = <<"exists", "verify", "remove", "symlink">>
    /\ log[3].res = "PermissionDenied"
    /\ log[4].res = "AlreadyExists"
    /\ fs = fs0

\* the only start of a call in which the operator is consulted
MustAsk == Exists(fs0, link_path) /\ LinkOutdated /\ args.interactive

\* C19: handle_symlink reads operator input exactly when link_path exists, its
\* verification succeeds, the version differs from source_version and
\* interactive = TRUE; in no other case is a line read or the prompt reached.
C19_ReadsOnlyOnInteractiveMismatch ==
    pc # "idle" =>
       /\ Did("read") => MustAsk
       /\ pc = "hs_prompt" => MustAsk
       /\ pc = "panicked" => MustAsk
       /\ (MustAsk /\ pc \notin {"hs_exists", "hs_verify", "hs_prompt"}) => Did("read")
       /\ (MustAsk /\ pc = "hs_prompt" /\ reads < MaxReads) => ENABLED HsPrompt

\* an interactive call on an outdated link that read a line and returned
C19_Witness ==
    /\ pc = "returned"
    /\ MustAsk
    /\ Len(OpsOf("read")) = 1
    /\ out[Len(out)] = "keeping"

\* no primitive of the current call was refused by the environment
NoFault == \A i \in 1..Len(log) : log[i].res # "PermissionDenied"

\* C20: with interactive = FALSE, a source that verifies as source_version and
\* primitives that fail only for what is at link_path, one handle_symlink call
\* ends with link_path verifying as source_version, whatever was at link_path
\* before; source_path itself is never verified by the call.
C20_OneCallConverges ==
    (pc = "returned" /\ ~args.interactive /\ NoFault
        /\ VerifyBinary(fs0, source_path).kind = "Ok"
        /\ VerifyBinary(fs0, source_path).version = args.source_version) =>
       /\ VerifyBinary(fs, link_path).kind = "Ok"
       /\ VerifyBinary(fs, link_path).version = args.source_version
       /\ Len(OpsOf("verify")) <= 1

(***************************************************************************)
(* Content of the collected entries (checked under SpecCollect)            *)
(***************************************************************************)
\* C17: the entry appended for a candidate that verifies is the pair of the
\* candidate's path and the version verify_binary returned for it; a failed
\* candidate appends nothing.
C17_EntryIsPathAndVersion ==
    LET kept == Kept(processed)
    IN  /\ Len(versions) = Len(kept)
        /\ \A i \in 1..Len(kept) :
              /\ <<versions[i].name>> = PathText[kept[i]]
              /\ versions[i].version = VerifyBinary(fs, kept[i]).version

(***************************************************************************)
(* The gap between check and mutation (checked under SpecRace)             *)
(***************************************************************************)
\* C18: the existence check and the verification of link_path are made once,
\* and the steps after them follow their recorded results alone: whatever a
\* second process does to link_path in between, handle_symlink takes the
\* branch the stale results select and never looks at link_path again before
\* its remove or symlink.
C18_ProceedsOnStaleCheck ==
    pc # "idle" =>
       /\ Len(OpsOf("exists")) <= 1
       /\ Len(OpsOf("verify")) <= 1
       /\ pc = "hs_create" => log = <<Event("exists", "false", <<>>)>>
       /\ pc \in {"hs_replace", "hs_replace_symlink"} =>
             /\ verified.kind = "Ok"
             /\ verified.version # args.source_version
             /\ decision
       /\ pc \in {"hs_repair_remove", "hs_repair_symlink"} =>
             verified.kind \in {"MissingPath", "VersionCallFail", "ExecutionError"}
       /\ (Did("symlink") /\ ~Did("verify")) => log[1] = Event("exists", "false", <<>>)
       /\ (Did("remove") \/ Did("symlink")) => Len(log) <= 4 + reads

\* nothing was at link_path when it was checked; the second process then put
\* a link to the old binary there, and the symlink of the call failed against
\* that entry, which is still in place at return
C18_Witness ==
    /\ pc = "returned"
    /\ ~EntryAt(fs0, link_path)
    /\ log = <<Event("exists", "false", <<>>), Event("symlink", "AlreadyExists", <<>>)>>
    /\ fs[link_path] = Symlink("old")

====
